---- MODULE Spec2Model ----
(***************************************************************************)
(* A model of myrient-filter: the filename classifier, the eligibility     *)
(* filter and the revision selector of src/src/lib.rs, and the download    *)
(* loop of src/examples/rom_dl.rs.                                         *)
(*                                                                         *)
(* A Rust String is modelled as a sequence of one-character strings, so    *)
(* that scanning, substring search and regex matching are computed         *)
(* character by character as the code does.  Option<i32> is modelled as a  *)
(* sequence of length 0 (None) or 1 (Some(n)).                             *)
(***************************************************************************)
EXTENDS Integers, Sequences, FiniteSets, TLC

VARIABLES
    \* get_terms_in_parentheses (the scanner inside is_valid_file)
    scan_filename, pos, terms, current_term, in_parentheses,
    \* RomLister.options, shared by is_valid_file and list_roms
    options,
    \* is_valid_file: its argument, its position and its return value
    href, vpc, valid,
    \* get_base_name_and_revision: its argument, its position and its result
    filename, spc, base_name, revision,
    \* list_roms: the anchors of the fetched listing, its position, its loop
    \* index and its locals
    anchors, lpc, li, urls, rom_groups, final_roms,
    \* main of rom_dl.rs: the result of list_roms, its position, the loop
    \* index, the calls of download_rom made and the messages printed
    winners, dpc, di, attempted, reported

scanVars == <<scan_filename, pos, terms, current_term, in_parentheses>>
validVars == <<href, vpc, valid>>
splitVars == <<filename, spc, base_name, revision>>
listVars == <<anchors, lpc, li, urls, rom_groups, final_roms>>
dlVars == <<winners, dpc, di, attempted, reported>>
vars == <<scanVars, options, validVars, splitVars, listVars, dlVars>>

(***************************************************************************)
(* Bounds of the model.                                                    *)
(***************************************************************************)
\* Largest number of chunks concatenated into a scanned filename.
MaxScanChunks == 5
\* Largest number of chunks concatenated into an href given to is_valid_file.
MaxHrefChunks == 3
\* Largest number of chunks concatenated into a classified filename.
MaxSplitChunks == 4
\* Largest number of entries of a listing, after the parent link.
MaxListing == 3
\* Largest number of records list_roms returns to main.
MaxWinners == 3

(***************************************************************************)
(* The value each group of variables keeps in the specifications that do   *)
(* not use it.                                                             *)
(***************************************************************************)
ScanIdle ==
    /\ scan_filename = <<>> /\ pos = 0 /\ terms = <<>>
    /\ current_term = <<>> /\ in_parentheses = FALSE
OptionsIdle == options = <<>>
ValidIdle == href = <<>> /\ vpc = "idle" /\ valid = FALSE
SplitIdle == filename = <<>> /\ spc = "idle" /\ base_name = <<>> /\ revision = <<>>
ListIdle ==
    /\ anchors = <<>> /\ lpc = "idle" /\ li = 0
    /\ urls = <<>> /\ rom_groups = <<>> /\ final_roms = <<>>
DlIdle ==
    /\ winners = <<>> /\ dpc = "idle" /\ di = 0
    /\ attempted = <<>> /\ reported = <<>>

(***************************************************************************)
(* Strings and Option values.                                              *)
(***************************************************************************)
None == <<>>
Some(n) == <<n>>

\* s.contains(p): p occurs in s as a contiguous substring.
Contains(s, p) ==
    \E i \in 0..(Len(s) - Len(p)) : SubSeq(s, i + 1, i + Len(p)) = p

\* The names made of at most n chunks of cs.
RECURSIVE Concats(_, _)
Concats(cs, n) ==
    IF n = 0 THEN {<<>>}
    ELSE LET shorter == Concats(cs, n - 1)
         IN  shorter \cup {x \o c : x \in shorter, c \in cs}

RECURSIVE SortedSeq(_)
SortedSeq(S) ==
    IF S = {} THEN <<>>
    ELSE LET m == CHOOSE x \in S : \A y \in S : x <= y
         IN  <<m>> \o SortedSeq(S \ {m})

(***************************************************************************)
(* get_terms_in_parentheses, lib.rs:166-190.  The loop state is the local  *)
(* variables terms, current_term and in_parentheses; each match arm is an  *)
(* operator on that state.                                                 *)
(***************************************************************************)
ScanInit == [terms |-> <<>>, current_term |-> <<>>, in_parentheses |-> FALSE]

\* A variant of the '(' arm that forgets current_term.clear().
ArmOpenNoClear(st) == [st EXCEPT !.in_parentheses = TRUE]

\* '(' => { in_parentheses = true; current_term.clear(); }
ArmOpen(st) == [st EXCEPT !.in_parentheses = TRUE, !.current_term = <<>>]

\* ')' => { if in_parentheses { terms.push(current_term.clone()); in_parentheses = false; } }
ArmClose(st) ==
    IF st.in_parentheses
    THEN [st EXCEPT !.terms = Append(@, st.current_term), !.in_parentheses = FALSE]
    ELSE st

\* _ if in_parentheses => { current_term.push(c); }
ArmInside(st, c) == [st EXCEPT !.current_term = Append(@, c)]

\* _ => {}
ArmOutside(st) == st

\* One iteration of `for c in filename.chars()`.
ScanStep(st, c) ==
    CASE c = "(" -> ArmOpen(st)
      [] c = ")" -> ArmClose(st)
      [] c \notin {"(", ")"} /\ st.in_parentheses -> ArmInside(st, c)
      [] OTHER -> ArmOutside(st)

RECURSIVE ScanFrom(_, _, _)
ScanFrom(st, f, i) ==
    IF i > Len(f) THEN st ELSE ScanFrom(ScanStep(st, f[i]), f, i + 1)

\* The whole function: the terms after the loop.
get_terms_in_parentheses(f) == ScanFrom(ScanInit, f, 1).terms

(***************************************************************************)
(* The scanner as a state machine, one step per character read.            *)
(***************************************************************************)
ScanChunks ==
    { <<"G">>, <<" ">>, <<"(">>, <<")">>, <<"(", "U", ")">>, <<".", "z">> }

ScanNames == Concats(ScanChunks, MaxScanChunks)

ScanSt == [terms |-> terms, current_term |-> current_term,
           in_parentheses |-> in_parentheses]

ScanSet(st) ==
    /\ terms' = st.terms
    /\ current_term' = st.current_term
    /\ in_parentheses' = st.in_parentheses
    /\ pos' = pos + 1
    /\ UNCHANGED <<scan_filename, options, validVars, splitVars, listVars, dlVars>>

ScanStart ==
    /\ scan_filename \in ScanNames
    /\ OptionsIdle /\ ValidIdle /\ SplitIdle /\ ListIdle /\ DlIdle
    /\ pos = 0
    /\ terms = ScanInit.terms
    /\ current_term = ScanInit.current_term
    /\ in_parentheses = ScanInit.in_parentheses

ScanOpen ==
    /\ pos < Len(scan_filename)
    /\ scan_filename[pos + 1] = "("
    /\ ScanSet(ArmOpen(ScanSt))

ScanCloseInside ==
    /\ pos < Len(scan_filename)
    /\ scan_filename[pos + 1] = ")"
    /\ in_parentheses
    /\ ScanSet(ArmClose(ScanSt))

ScanCloseStray ==
    /\ pos < Len(scan_filename)
    /\ scan_filename[pos + 1] = ")"
    /\ ~in_parentheses
    /\ ScanSet(ArmClose(ScanSt))

ScanInside ==
    /\ pos < Len(scan_filename)
    /\ scan_filename[pos + 1] \notin {"(", ")"}
    /\ in_parentheses
    /\ ScanSet(ArmInside(ScanSt, scan_filename[pos + 1]))

ScanOutside ==
    /\ pos < Len(scan_filename)
    /\ scan_filename[pos + 1] \notin {"(", ")"}
    /\ ~in_parentheses
    /\ ScanSet(ArmOutside(ScanSt))

ScanNext ==
    \/ ScanOpen
    \/ ScanCloseInside
    \/ ScanCloseStray
    \/ ScanInside
    \/ ScanOutside

SpecScan == ScanStart /\ [][ScanNext]_vars

(***************************************************************************)
(* C8.  What the scanner must have emitted after reading n characters,     *)
(* stated from the text alone: one tag per ')' that closes a '(' with no   *)
(* parenthesis in between, the tag being the characters strictly between   *)
(* the two, in left-to-right order.                                        *)
(***************************************************************************)
IsParen(c) == c \in {"(", ")"}

Opens(f, a, b) ==
    /\ a < b
    /\ f[a] = "("
    /\ \A m \in (a + 1)..(b - 1) : ~IsParen(f[m])

Closers(f, n) ==
    {b \in 1..n : f[b] = ")" /\ \E a \in 1..(b - 1) : Opens(f, a, b)}

OpenerOf(f, b) == CHOOSE a \in 1..(b - 1) : Opens(f, a, b)

ExpectedTerms(f, n) ==
    LET bs == SortedSeq(Closers(f, n))
    IN  [k \in 1..Len(bs) |-> SubSeq(f, OpenerOf(f, bs[k]) + 1, bs[k] - 1)]

\* C8: in every state of the scan, the tags emitted so far are exactly the
\* texts between each '(' and the ')' that closes it among the characters
\* read, in left-to-right order; no tag holds a parenthesis; and the flag is
\* true exactly when the last parenthesis read is an unclosed '('.
C8_TagsAreParenthesizedText ==
    /\ terms = ExpectedTerms(scan_filename, pos)
    /\ \A k \in 1..Len(terms) : \A j \in 1..Len(terms[k]) : ~IsParen(terms[k][j])
    /\ in_parentheses =
         (\E a \in 1..pos :
             /\ scan_filename[a] = "("
             /\ \A m \in (a + 1)..pos : ~IsParen(scan_filename[m]))

\* C8 witness: a scan that has read a nested '(' (buffer restarted), a stray
\* ')' and text outside parentheses, and has emitted a tag.
C8_Witness ==
    /\ pos = Len(scan_filename)
    /\ Len(terms) >= 1
    /\ \E a \in 1..pos : \E b \in (a + 1)..pos :
          /\ scan_filename[a] = "(" /\ scan_filename[b] = "("
          /\ \A m \in (a + 1)..(b - 1) : scan_filename[m] = "G"
          /\ b > a + 1
    /\ \E b \in 1..pos : scan_filename[b] = ")" /\ b \notin Closers(scan_filename, pos)
    /\ scan_filename[1] = "G"

(***************************************************************************)
(* is_valid_file, lib.rs:160-239.                                          *)
(***************************************************************************)
sUSA == <<"U", "S", "A">>
sEurope == <<"E", "u", "r", "o", "p", "e">>
sWorld == <<"W", "o", "r", "l", "d">>
sBeta == <<"B", "e", "t", "a">>
sAlt == <<"A", "l", "t">>

\* href.split('/').last(): the text after the last '/'.
RECURSIVE LastSegment(_)
LastSegment(h) ==
    IF h = <<>> \/ h[Len(h)] = "/" THEN <<>>
    ELSE Append(LastSegment(SubSeq(h, 1, Len(h) - 1)), h[Len(h)])

\* The percent escapes that occur in the model's names.
PercentTable == (<<"2", "8">> :> "(") @@ (<<"2", "9">> :> ")") @@ (<<"2", "0">> :> " ")

\* urlencoding::decode: each '%' followed by two hex digits becomes the
\* character they encode; everything else is copied.
RECURSIVE UrlDecode(_)
UrlDecode(s) ==
    IF s = <<>> THEN <<>>
    ELSE IF /\ s[1] = "%"
            /\ Len(s) >= 3
            /\ <<s[2], s[3]>> \in DOMAIN PercentTable
         THEN <<PercentTable[<<s[2], s[3]>>]>> \o UrlDecode(SubSeq(s, 4, Len(s)))
         ELSE <<s[1]>> \o UrlDecode(Tail(s))

\* let file_name = urlencoding::decode(href.split('/').last()...)
FileNameOfHref(h) == UrlDecode(LastSegment(h))

\* The fixed list of lib.rs:215-229.
excluded_keywords ==
    { sBeta,
      <<"A", "l", "p", "h", "a">>,
      <<"P", "r", "o", "t", "o">>,
      <<"V", "i", "r", "t", "u", "a", "l", " ", "C", "o", "n", "s", "o", "l", "e">>,
      <<"A", "f", "t", "e", "r", "m", "a", "r", "k", "e", "t">>,
      <<"U", "n", "l">>,
      <<"S", "a", "m", "p", "l", "e">>,
      <<"P", "r", "o", "m", "o">>,
      <<"D", "e", "m", "o">>,
      <<"K", "i", "o", "s", "k">>,
      <<"A", "r", "c", "a", "d", "e">> }

SeqRange(s) == {s[i] : i \in 1..Len(s)}

\* if self.options.region_limit { if !terms.iter().any(|term| regions.contains(term)) { return false } }
RegionCheckFails(ts, o) ==
    /\ o.region_limit
    /\ ~\E k \in 1..Len(ts) : ts[k] \in {o.region, sWorld}

\* A variant of the custom-exclude check that compares for equality.
ExcludeCheckHitsExact(ts, o) ==
    \E k \in 1..Len(ts) : ts[k] \in SeqRange(o.exclude_patterns)

\* terms.iter().any(|term| exclude_patterns.iter().any(|pattern| term.contains(pattern)))
ExcludeCheckHits(ts, o) ==
    \E k \in 1..Len(ts) : \E p \in SeqRange(o.exclude_patterns) : Contains(ts[k], p)

\* if self.options.smart_filters { if terms.iter().any(|term| excluded_keywords.contains(term)) { return false } }
SmartCheckHits(ts, o) ==
    /\ o.smart_filters
    /\ \E k \in 1..Len(ts) : ts[k] \in excluded_keywords

\* The function, with its early returns in the code's order.
is_valid_file(h, o) ==
    LET ts == get_terms_in_parentheses(FileNameOfHref(h))
    IN  IF RegionCheckFails(ts, o) THEN FALSE
        ELSE IF ExcludeCheckHits(ts, o) THEN FALSE
        ELSE IF SmartCheckHits(ts, o) THEN FALSE
        ELSE TRUE

(***************************************************************************)
(* is_valid_file as a state machine: one action per return statement.      *)
(***************************************************************************)
HrefChunks ==
    { <<"G">>, <<"B", "e", "t", "a">>, <<"(">>, <<")">>, <<"/">>,
      <<"%", "2", "8">>,
      <<"(", "U", "S", "A", ")">>,
      <<"(", "W", "o", "r", "l", "d", ")">>,
      <<"(", "B", "e", "t", "a", ")">>,
      <<"(", "A", "l", "t", " ", "V", ")">> }

Hrefs == Concats(HrefChunks, MaxHrefChunks)

ExcludeChoices == { <<>>, <<sAlt>>, <<sBeta, sAlt>> }

ValidOptions ==
    [region_limit : BOOLEAN, region : {sUSA, sEurope}, smart_filters : BOOLEAN,
     exclude_patterns : ExcludeChoices, latest_revision : {TRUE}]

ValidStart ==
    /\ ScanIdle /\ SplitIdle /\ ListIdle /\ DlIdle
    /\ options \in ValidOptions
    /\ href \in Hrefs
    /\ vpc = "call"
    /\ valid = FALSE

ValidTerms == get_terms_in_parentheses(FileNameOfHref(href))

ValidReturn(v) ==
    /\ vpc = "call"
    /\ vpc' = "done"
    /\ valid' = v
    /\ UNCHANGED <<scanVars, options, href, splitVars, listVars, dlVars>>

\* return false (lib.rs:199)
ValidRejectRegion ==
    /\ RegionCheckFails(ValidTerms, options)
    /\ ValidReturn(FALSE)

\* return false (lib.rs:210)
ValidRejectExclude ==
    /\ ~RegionCheckFails(ValidTerms, options)
    /\ ExcludeCheckHits(ValidTerms, options)
    /\ ValidReturn(FALSE)

\* return false (lib.rs:234)
ValidRejectSmart ==
    /\ ~RegionCheckFails(ValidTerms, options)
    /\ ~ExcludeCheckHits(ValidTerms, options)
    /\ SmartCheckHits(ValidTerms, options)
    /\ ValidReturn(FALSE)

\* true (lib.rs:238)
ValidAccept ==
    /\ ~RegionCheckFails(ValidTerms, options)
    /\ ~ExcludeCheckHits(ValidTerms, options)
    /\ ~SmartCheckHits(ValidTerms, options)
    /\ ValidReturn(TRUE)

ValidNext ==
    \/ ValidRejectRegion
    \/ ValidRejectExclude
    \/ ValidRejectSmart
    \/ ValidAccept

SpecValid == ValidStart /\ [][ValidNext]_vars

(***************************************************************************)
(* C7.  The three predicates of the claim, stated over the tags of the     *)
(* decoded filename as the text defines them (ExpectedTerms).              *)
(***************************************************************************)
C7_Tags ==
    LET f == FileNameOfHref(href) IN SeqRange(ExpectedTerms(f, Len(f)))

C7_RegionOk == ~options.region_limit \/ \E t \in C7_Tags : t = options.region \/ t = sWorld

C7_NoExcluded ==
    \A t \in C7_Tags : \A k \in 1..Len(options.exclude_patterns) :
        ~Contains(t, options.exclude_patterns[k])

C7_NoSmart == ~options.smart_filters \/ \A t \in C7_Tags : t \notin excluded_keywords

C7_Check(n) ==
    CASE n = 1 -> C7_RegionOk
      [] n = 2 -> C7_NoExcluded
      [] n = 3 -> C7_NoSmart

\* The three checks run in the order `order`, returning at the first failure.
C7_InOrder(order) ==
    IF ~C7_Check(order[1]) THEN FALSE
    ELSE IF ~C7_Check(order[2]) THEN FALSE
    ELSE IF ~C7_Check(order[3]) THEN FALSE
    ELSE TRUE

\* The filename reduced to its parenthesized groups.
RECURSIVE C7_GroupsOnly(_)
C7_GroupsOnly(ts) ==
    IF ts = <<>> THEN <<>>
    ELSE <<"(">> \o Head(ts) \o <<")">> \o C7_GroupsOnly(Tail(ts))

\* C7: once is_valid_file has returned, its result is the conjunction of the
\* region, custom-exclude and smart-filter predicates over the filename's
\* tags, whatever the order the three are evaluated in, and it is the result
\* for the filename with all text outside parentheses removed.
C7_EligibleIffAllThree ==
    vpc = "done" =>
        /\ valid = (C7_RegionOk /\ C7_NoExcluded /\ C7_NoSmart)
        /\ \A order \in Permutations({1, 2, 3}) : C7_InOrder(order) = valid
        /\ LET f == FileNameOfHref(href)
           IN  is_valid_file(C7_GroupsOnly(ExpectedTerms(f, Len(f))), options) = valid

\* C7 witness: a file accepted under a region limit with smart filters and a
\* custom pattern in force, although "Beta" occurs outside parentheses.
C7_Witness ==
    /\ vpc = "done" /\ valid
    /\ options.region_limit /\ options.smart_filters
    /\ options.exclude_patterns = <<sBeta, sAlt>>
    /\ Contains(href, sBeta)
    /\ Contains(href, <<"(", "U", "S", "A", ")">>)

(***************************************************************************)
(* get_base_name_and_revision, lib.rs:241-267.                             *)
(*                                                                         *)
(* The pattern of lib.rs:245 is                                            *)
(*    ^(.*?) A* B? C* E? $                                                 *)
(* with  A = \s*\([^)]*(?:Rev\s*\d+|USA|Europe|World|Japan)[^)]*\)         *)
(*       B = \s*\(Rev\s*(\d+)\)                                            *)
(*       C = \s*\([^)]*\)                                                  *)
(*       E = \..*                                                          *)
(* The regex crate returns the leftmost-first match: the lazy group 1 is   *)
(* the shortest prefix after which the rest matches, and each greedy       *)
(* repetition takes one more iteration whenever the rest still matches     *)
(* after it.  Positions are 1-based; a position Len(s)+1 is the end.       *)
(***************************************************************************)
\* \s, for the white space of the model's names.
IsSpace(c) == c \in {" ", "\n"}

Digits == <<"0", "1", "2", "3", "4", "5", "6", "7", "8", "9">>

\* \d
IsDigit(c) == \E d \in 1..10 : Digits[d] = c

DigitVal(c) == (CHOOSE d \in 1..10 : Digits[d] = c) - 1

\* i32::MAX, the largest value str::parse::<i32> returns.
I32Max == 2147483647

\* m.as_str().parse::<i32>().ok() on a string of digits: None on overflow.
RECURSIVE ParseFrom(_, _, _)
ParseFrom(ds, i, acc) ==
    IF i > Len(ds) THEN Some(acc)
    ELSE LET d == DigitVal(ds[i])
         IN  IF acc > (I32Max - d) \div 10 THEN None
             ELSE ParseFrom(ds, i + 1, acc * 10 + d)

ParseI32(ds) == ParseFrom(ds, 1, 0)

\* \s* from position i: the position of the first character that is not white space.
RECURSIVE SkipSpaces(_, _)
SkipSpaces(s, i) ==
    IF i <= Len(s) /\ IsSpace(s[i]) THEN SkipSpaces(s, i + 1) ELSE i

\* \d* from position i.
RECURSIVE SkipDigits(_, _)
SkipDigits(s, i) ==
    IF i <= Len(s) /\ IsDigit(s[i]) THEN SkipDigits(s, i + 1) ELSE i

\* The position of the first ')' at or after i, or 0.
RECURSIVE FirstClose(_, _)
FirstClose(s, i) ==
    IF i > Len(s) THEN 0
    ELSE IF s[i] = ")" THEN i
    ELSE FirstClose(s, i + 1)

\* C at position i: [ok, open, close], the positions of its '(' and ')'.
GroupAt(s, i) ==
    LET j == SkipSpaces(s, i)
        k == IF j <= Len(s) /\ s[j] = "(" THEN FirstClose(s, j + 1) ELSE 0
    IN  [ok |-> k > 0, open |-> j, close |-> k]

\* Rev\s*\d+ at position i of s: the position after it, or 0.
RevTokenAt(s, i) ==
    IF i + 2 <= Len(s) /\ SubSeq(s, i, i + 2) = <<"R", "e", "v">>
    THEN LET j == SkipSpaces(s, i + 3)
             k == SkipDigits(s, j)
         IN  IF k > j THEN k ELSE 0
    ELSE 0

RegionMarkers ==
    { <<"U", "S", "A">>, <<"E", "u", "r", "o", "p", "e">>,
      <<"W", "o", "r", "l", "d">>, <<"J", "a", "p", "a", "n">> }

\* [^)]*(?:Rev\s*\d+|USA|Europe|World|Japan)[^)]* on the text of a group.
IsMetadataContent(c) ==
    \/ \E m \in RegionMarkers : Contains(c, m)
    \/ \E i \in 1..Len(c) : RevTokenAt(c, i) > 0

\* Rev\s*(\d+) on the whole text of a group: [ok, digits].
RevContent(c) ==
    LET e == RevTokenAt(c, 1)
    IN  IF e > 0 /\ e = Len(c) + 1
        THEN [ok |-> TRUE, digits |-> SubSeq(c, SkipSpaces(c, 4), Len(c))]
        ELSE [ok |-> FALSE, digits |-> <<>>]

GroupText(s, g) == SubSeq(s, g.open + 1, g.close - 1)

NoMatch == [ok |-> FALSE, g2 |-> None]

\* (?:\..*)?$ at position i: the end, or a '.' with no line break after it.
ExtAt(s, i) ==
    \/ i = Len(s) + 1
    \/ /\ i <= Len(s)
       /\ s[i] = "."
       /\ \A m \in (i + 1)..Len(s) : s[m] # "\n"

\* C* E? $ at position i.
RECURSIVE TailC(_, _)
TailC(s, i) ==
    LET g == GroupAt(s, i)
        more == IF g.ok THEN TailC(s, g.close + 1) ELSE NoMatch
    IN  IF more.ok THEN more
        ELSE [ok |-> ExtAt(s, i), g2 |-> None]

\* B? C* E? $ at position i; a B taken captures its digits as group 2.
TailB(s, i) ==
    LET g == GroupAt(s, i)
        r == IF g.ok THEN RevContent(GroupText(s, g)) ELSE [ok |-> FALSE, digits |-> <<>>]
        more == IF r.ok THEN TailC(s, g.close + 1) ELSE NoMatch
    IN  IF more.ok THEN [ok |-> TRUE, g2 |-> Some(r.digits)]
        ELSE TailC(s, i)

\* A* B? C* E? $ at position i.
RECURSIVE TailA(_, _)
TailA(s, i) ==
    LET g == GroupAt(s, i)
        more == IF g.ok /\ IsMetadataContent(GroupText(s, g))
                THEN TailA(s, g.close + 1) ELSE NoMatch
    IN  IF more.ok THEN more
        ELSE TailB(s, i)

\* re.captures(filename): [matched, g1, g2].
RECURSIVE CapturesFrom(_, _)
CapturesFrom(s, p) ==
    LET t == TailA(s, p + 1)
    IN  IF t.ok THEN [matched |-> TRUE, g1 |-> SubSeq(s, 1, p), g2 |-> t.g2]
        ELSE IF p = Len(s) \/ s[p + 1] = "\n"
             THEN [matched |-> FALSE, g1 |-> <<>>, g2 |-> None]
             ELSE CapturesFrom(s, p + 1)

Captures(s) == CapturesFrom(s, 0)

\* \(Rev\s*(\d+)\) at position i: the digits, or <<>>.
RevGroupAt(s, i) ==
    IF i <= Len(s) /\ s[i] = "("
    THEN LET e == RevTokenAt(s, i + 1)
         IN  IF e > 0 /\ e <= Len(s) /\ s[e] = ")"
             THEN SubSeq(s, SkipSpaces(s, i + 4), e - 1)
             ELSE <<>>
    ELSE <<>>

\* rev_re.captures(filename): the digits of the leftmost \(Rev\s*(\d+)\), parsed.
RECURSIVE FallbackFrom(_, _)
FallbackFrom(s, i) ==
    IF i > Len(s) THEN None
    ELSE IF RevGroupAt(s, i) # <<>> THEN ParseI32(RevGroupAt(s, i))
    ELSE FallbackFrom(s, i + 1)

FallbackRevision(s) == FallbackFrom(s, 1)

\* str::trim
RECURSIVE TrimEnd(_)
TrimEnd(s) ==
    IF s # <<>> /\ IsSpace(s[Len(s)]) THEN TrimEnd(SubSeq(s, 1, Len(s) - 1)) ELSE s

Trim(s) == LET j == SkipSpaces(s, 1) IN TrimEnd(SubSeq(s, j, Len(s)))

\* caps.get(2).and_then(parse).or_else(fallback), lib.rs:250-260.
RevisionOf(caps, f) ==
    LET first == IF caps.g2 = None THEN None ELSE ParseI32(caps.g2[1])
    IN  IF first # None THEN first ELSE FallbackRevision(f)

\* The function: (base_name, revision).
get_base_name_and_revision(f) ==
    LET caps == Captures(f)
    IN  IF caps.matched
        THEN [base_name |-> Trim(caps.g1), revision |-> RevisionOf(caps, f)]
        ELSE [base_name |-> f, revision |-> None]

(***************************************************************************)
(* The classifier applied to one filename.                                 *)
(***************************************************************************)
SplitChunks ==
    { <<"G">>, <<" ">>, <<".">>, <<".", "z">>, <<"\n">>, <<"(">>, <<")">>,
      <<" ", "(", "P", ")">>,
      <<" ", "(", "U", "S", "A", ")">>,
      <<" ", "(", "R", "e", "v", " ", "1", ")">>,
      <<" ", "(", "R", "e", "v", " ", "2", ")">>,
      <<" ", "(", "R", "e", "v", " ", "9", "9", "9", "9", "9", "9", "9", "9", "9", "9", ")">> }

SplitNames == Concats(SplitChunks, MaxSplitChunks)

SplitStart ==
    /\ ScanIdle /\ OptionsIdle /\ ValidIdle /\ ListIdle /\ DlIdle
    /\ filename \in SplitNames
    /\ spc = "call"
    /\ base_name = <<>>
    /\ revision = None

SplitReturn(r) ==
    /\ spc = "call"
    /\ spc' = "done"
    /\ base_name' = r.base_name
    /\ revision' = r.revision
    /\ UNCHANGED <<scanVars, options, validVars, filename, listVars, dlVars>>

\* if let Some(caps) = re.captures(filename) { ... (base_name, revision) }
SplitMatched ==
    /\ Captures(filename).matched
    /\ SplitReturn(get_base_name_and_revision(filename))

\* else { (filename.to_string(), None) }
SplitUnmatched ==
    /\ ~Captures(filename).matched
    /\ SplitReturn(get_base_name_and_revision(filename))

SplitNext ==
    \/ SplitMatched
    \/ SplitUnmatched

SpecSplit == SplitStart /\ [][SplitNext]_vars

(***************************************************************************)
(* C4, C5, C6.  The parts of a filename as the claims name them, read from *)
(* the text alone: the extension is the text after the last '.', the       *)
(* trailing run is the longest run of parenthetical groups that ends the   *)
(* rest, and the title text is what precedes that run.  The claims are     *)
(* stated for the well-formed names only (one line, every parenthesis part *)
(* of a group "(text)"), which is narrower than the claims themselves.     *)
(***************************************************************************)
Cl_Count(s, c) == Cardinality({i \in 1..Len(s) : s[i] = c})

\* The name starts with a title character, every '(' is closed by a ')'
\* before the next '(', there is no stray ')' and no group is empty.
Cl_WellFormed(s) ==
    /\ s # <<>> /\ s[1] = "G"
    /\ \A i \in 1..Len(s) : s[i] # "\n"
    /\ \A b \in Closers(s, Len(s)) : OpenerOf(s, b) < b - 1
    /\ Cl_Count(s, ")") = Cardinality(Closers(s, Len(s)))
    /\ Cl_Count(s, "(") = Cl_Count(s, ")")

Cl_LastDot(s) ==
    IF \E i \in 1..Len(s) : s[i] = "."
    THEN CHOOSE i \in 1..Len(s) : s[i] = "." /\ \A m \in (i + 1)..Len(s) : s[m] # "."
    ELSE 0

\* The name has an extension: a last '.' followed by plain characters.
Cl_HasExtension(s) ==
    /\ Cl_LastDot(s) > 0
    /\ Cl_LastDot(s) < Len(s)
    /\ \A m \in (Cl_LastDot(s) + 1)..Len(s) : s[m] \notin {" ", "(", ")"}

\* The name without its extension.
Cl_Stem(s) == IF Cl_LastDot(s) > 0 THEN SubSeq(s, 1, Cl_LastDot(s) - 1) ELSE s

\* s from position p + 1 on is a run of groups, each after optional spaces.
RECURSIVE Cl_IsRunFrom(_, _)
Cl_IsRunFrom(s, p) ==
    \/ p = Len(s)
    \/ LET g == GroupAt(s, p + 1) IN g.ok /\ Cl_IsRunFrom(s, g.close)

\* Where the trailing run of s starts: the title text is s[1..p].
Cl_RunStart(s) ==
    CHOOSE p \in 0..Len(s) :
        /\ Cl_IsRunFrom(s, p)
        /\ \A q \in 0..(p - 1) : ~Cl_IsRunFrom(s, q)

Cl_TitleText(s) == SubSeq(s, 1, Cl_RunStart(s))

\* The texts of the groups of s from position p + 1 on, in order.
RECURSIVE Cl_GroupsFrom(_, _)
Cl_GroupsFrom(s, p) ==
    LET g == GroupAt(s, p + 1)
    IN  IF g.ok THEN <<GroupText(s, g)>> \o Cl_GroupsFrom(s, g.close) ELSE <<>>

Cl_IsSuffix(x, s) == Len(x) <= Len(s) /\ SubSeq(s, Len(s) - Len(x) + 1, Len(s)) = x

\* C4 (as claimed): for a well-formed name with an extension whose title
\* text contains a '.' followed by further title characters, the canonical
\* title keeps the title text from that '.' on: only the text after the
\* last '.' of the name is stripped.
C4_EmbeddedDotKept ==
    (/\ spc = "done"
     /\ Cl_WellFormed(filename)
     /\ Cl_HasExtension(filename)
     /\ \E i \in 1..Len(Cl_TitleText(Cl_Stem(filename))) :
            /\ Cl_TitleText(Cl_Stem(filename))[i] = "."
            /\ \E m \in (i + 1)..Len(Cl_TitleText(Cl_Stem(filename))) :
                   Cl_TitleText(Cl_Stem(filename))[m] \notin {".", " "})
    => LET t == Cl_TitleText(Cl_Stem(filename))
           q == CHOOSE i \in 1..Len(t) : t[i] = "." /\ \A m \in 1..(i - 1) : t[m] # "."
       IN  Cl_IsSuffix(TrimEnd(SubSeq(t, q, Len(t))), base_name)

\* The number a string of at most nine digits denotes.
RECURSIVE Cl_Value(_)
Cl_Value(ds) ==
    IF ds = <<>> THEN 0
    ELSE Cl_Value(SubSeq(ds, 1, Len(ds) - 1)) * 10 + DigitVal(ds[Len(ds)])

\* rev is the revision N written by the digits ds.
Cl_IsRevision(rev, ds) ==
    IF Len(ds) <= 9 THEN rev = Some(Cl_Value(ds)) ELSE rev # None

\* The digits of the '(Rev N)' groups among the group texts gs, in order.
Cl_RevDigits(gs) ==
    LET idx == SortedSeq({k \in 1..Len(gs) : RevContent(gs[k]).ok})
    IN  [k \in 1..Len(idx) |-> RevContent(gs[idx[k]]).digits]

\* The digits of every '(Rev N)' group of the name, in order.
Cl_AllRevDigits(s) ==
    LET idx == SortedSeq({i \in 1..Len(s) : RevGroupAt(s, i) # <<>>})
    IN  [k \in 1..Len(idx) |-> RevGroupAt(s, idx[k])]

\* C5 (as claimed): for a well-formed name, a '(Rev N)' group of the
\* trailing run gives the revision, also when an earlier '(Rev M)' stands in
\* the title; without one, the first '(Rev N)' of the name does; and the
\* revision is None exactly when the name has no '(Rev N)' group.
C5_RevisionResolutionOrder ==
    (spc = "done" /\ Cl_WellFormed(filename))
    => LET stem == Cl_Stem(filename)
           inRun == Cl_RevDigits(Cl_GroupsFrom(stem, Cl_RunStart(stem)))
           all == Cl_AllRevDigits(filename)
       IN  /\ inRun # <<>> =>
                \E k \in 1..Len(inRun) : Cl_IsRevision(revision, inRun[k])
           /\ (inRun = <<>> /\ all # <<>>) => Cl_IsRevision(revision, all[1])
           /\ (revision = None) <=> (all = <<>>)

\* C6 (as claimed): for a well-formed name made of a title text, one or
\* more parenthetical groups and an extension, the canonical title is the
\* trimmed text before the trailing run of groups.
C6_TitlePrecedesTrailingRun ==
    (/\ spc = "done"
     /\ Cl_WellFormed(filename)
     /\ Cl_HasExtension(filename)
     /\ Cl_RunStart(Cl_Stem(filename)) < Len(Cl_Stem(filename))
     /\ Trim(Cl_TitleText(Cl_Stem(filename))) # <<>>)
    => base_name = Trim(Cl_TitleText(Cl_Stem(filename)))

\* C6 restricted to the names whose title text holds no '.': the title is
\* the trimmed text before the trailing run.
C6_DotFreeTitle ==
    (/\ spc = "done"
     /\ Cl_WellFormed(filename)
     /\ Cl_HasExtension(filename)
     /\ Cl_RunStart(Cl_Stem(filename)) < Len(Cl_Stem(filename))
     /\ Trim(Cl_TitleText(Cl_Stem(filename))) # <<>>
     /\ \A i \in 1..Len(Cl_TitleText(Cl_Stem(filename))) :
            Cl_TitleText(Cl_Stem(filename))[i] # ".")
    => base_name = Trim(Cl_TitleText(Cl_Stem(filename)))

(***************************************************************************)
(* list_rom_urls and list_roms, lib.rs:72-158.                             *)
(***************************************************************************)
\* pub const BASE_URL, lib.rs:7.
BASE_URL ==
    <<"h", "t", "t", "p", "s", ":", "/", "/", "m", "y", "r", "i", "e", "n", "t",
      ".", "e", "r", "i", "s", "t", "a", ".", "m", "e", "/", "f", "i", "l", "e",
      "s", "/">>

\* The arguments of list_roms: a system name with a space, and a subdir.
ListSystem == <<"S", " ", "N">>
ListSubdir == <<"N", "o", "-", "I", "n", "t", "r", "o">>

\* system.replace(" ", "%20")
RECURSIVE ReplaceSpaces(_)
ReplaceSpaces(s) ==
    IF s = <<>> THEN <<>>
    ELSE (IF s[1] = " " THEN <<"%", "2", "0">> ELSE <<s[1]>>) \o ReplaceSpaces(Tail(s))

StartsWith(s, p) == Len(s) >= Len(p) /\ SubSeq(s, 1, Len(p)) = p

\* The closure of .map() in list_rom_urls: the full URL of an href.
UrlOfHref(h) ==
    IF ~StartsWith(h, <<"h", "t", "t", "p">>)
    THEN BASE_URL \o ListSubdir \o <<"/">> \o ReplaceSpaces(ListSystem) \o <<"/">> \o h
    ELSE h

\* The position of the n-th '/' of s at or after i, or 0.
RECURSIVE NthSlash(_, _, _)
NthSlash(s, i, n) ==
    IF i > Len(s) THEN 0
    ELSE IF s[i] = "/" THEN (IF n = 1 THEN i ELSE NthSlash(s, i + 1, n - 1))
    ELSE NthSlash(s, i + 1, n)

\* Url::parse(&url).path(): the text from the '/' that follows the host.
PathOfUrl(u) ==
    LET k == NthSlash(u, 1, 3) IN IF k = 0 THEN <<"/">> ELSE SubSeq(u, k, Len(u))

RECURSIVE StripTrailingSlashes(_)
StripTrailingSlashes(p) ==
    IF p # <<>> /\ p[Len(p)] = "/" THEN StripTrailingSlashes(SubSeq(p, 1, Len(p) - 1))
    ELSE p

\* Path::new(p).file_name(): the last component; a trailing '/' is ignored.
PathFileName(p) == LastSegment(StripTrailingSlashes(p))

\* The filename list_roms derives from a URL, lib.rs:115-119 and 129-133.
FilenameOfUrl(u) == PathFileName(UrlDecode(PathOfUrl(u)))

RomOfUrl(u) == [filename |-> FilenameOfUrl(u), url |-> u]

\* revision.unwrap_or(-1), the key of max_by_key (lib.rs:147-150).
RevisionKey(rom) ==
    LET rev == get_base_name_and_revision(rom.filename).revision
    IN  IF rev = None THEN -1 ELSE rev[1]

\* A variant of max_by_key that keeps the first of several maxima.
RECURSIVE MaxByKeyFirstFrom(_, _, _)
MaxByKeyFirstFrom(roms, i, best) ==
    IF i > Len(roms) THEN best
    ELSE MaxByKeyFirstFrom(roms, i + 1,
             IF RevisionKey(roms[i]) > RevisionKey(best) THEN roms[i] ELSE best)

MaxByKeyKeepsFirst(roms) == MaxByKeyFirstFrom(roms, 2, roms[1])

\* A variant that returns the first record of the group.
FirstOfGroup(roms) == roms[1]

\* Iterator::max_by_key folds the elements keeping the later one unless the
\* earlier one compares greater: of several maxima the last is returned.
RECURSIVE MaxByKeyFrom(_, _, _)
MaxByKeyFrom(roms, i, best) ==
    IF i > Len(roms) THEN best
    ELSE MaxByKeyFrom(roms, i + 1,
             IF RevisionKey(best) > RevisionKey(roms[i]) THEN best ELSE roms[i])

\* roms.iter().max_by_key(|rom| revision.unwrap_or(-1)), on a group that is not empty.
MaxByKey(roms) == MaxByKeyFrom(roms, 2, roms[1])

\* A variant that groups by the filename itself.
GroupKeyIsFilename(fname) == fname

\* let (base_name, _revision) = Self::get_base_name_and_revision(&filename);
GroupKey(fname) == get_base_name_and_revision(fname).base_name

\* The characters of the model's names in code-point order.
CodePoints ==
    <<" ", "%", "(", ")", "-", ".", "/", "0", "1", "2", "3", "4", "5", "6", "7",
      "8", "9", ":", "A", "B", "E", "G", "H", "I", "N", "P", "R", "S", "U", "V",
      "W", "a", "d", "e", "f", "h", "i", "l", "m", "n", "o", "p", "r", "s", "t",
      "u", "v", "y", "z">>

CodeOf(c) == CHOOSE n \in 1..Len(CodePoints) : CodePoints[n] = c

\* The order of String keys in a BTreeMap: lexicographic by code point.
RECURSIVE StrLess(_, _)
StrLess(a, b) ==
    IF b = <<>> THEN FALSE
    ELSE IF a = <<>> THEN TRUE
    ELSE IF a[1] # b[1] THEN CodeOf(a[1]) < CodeOf(b[1])
    ELSE StrLess(Tail(a), Tail(b))

\* The keys of the map in iteration order.
RECURSIVE SortedKeys(_)
SortedKeys(S) ==
    IF S = {} THEN <<>>
    ELSE LET m == CHOOSE x \in S : \A y \in S \ {x} : StrLess(x, y)
         IN  <<m>> \o SortedKeys(S \ {m})

\* rom_groups.entry(base_name).or_default().push(rom)
PushToGroup(groups, key, rom) ==
    IF key \in DOMAIN groups
    THEN [groups EXCEPT ![key] = Append(@, rom)]
    ELSE groups @@ (key :> <<rom>>)

(***************************************************************************)
(* list_roms as a state machine over the anchors of the fetched listing.   *)
(***************************************************************************)
ParentLink == <<".", ".", "/">>

ListNames ==
    { <<"G", " ", "(", "U", "S", "A", ")">>,
      <<"G", " ", "(", "U", "S", "A", ")", " ", "(", "R", "e", "v", " ", "1", ")">>,
      <<"G", " ", "(", "R", "e", "v", " ", "1", ")", " ", "(", "U", "S", "A", ")">>,
      <<"G", " ", "(", "U", "S", "A", ")", " ", "(", "R", "e", "v", " ", "2", ")",
        " ", "(", "B", "e", "t", "a", ")">>,
      <<"H", " ", "(", "U", "S", "A", ")">>,
      <<"G", " ", "(", "R", "e", "v", " ", "0", ")">>,
      <<"G", " ", "(", "B", "e", "t", "a", ")", "/">> }

RECURSIVE SeqsUpTo(_, _)
SeqsUpTo(S, n) ==
    IF n = 0 THEN {<<>>}
    ELSE LET shorter == SeqsUpTo(S, n - 1)
         IN  shorter \cup {Append(x, e) : x \in shorter, e \in S}

ListOptions ==
    [region_limit : BOOLEAN, region : {sUSA}, smart_filters : {TRUE},
     exclude_patterns : {<<>>}, latest_revision : BOOLEAN]

EmptyMap == [k \in {} |-> <<>>]

ListStart ==
    /\ ScanIdle /\ ValidIdle /\ SplitIdle /\ DlIdle
    /\ options \in ListOptions
    /\ anchors \in {<<ParentLink>> \o l : l \in SeqsUpTo(ListNames, MaxListing)}
    /\ lpc = "fetch"
    /\ li = 0
    /\ urls = <<>>
    /\ rom_groups = EmptyMap
    /\ final_roms = <<>>

ListOthers == <<scanVars, validVars, splitVars, dlVars, options, anchors>>

\* self.client.get(&url).send().await?.text().await? fails: list_roms returns Err.
ListFetchErr ==
    /\ lpc = "fetch"
    /\ lpc' = "err"
    /\ UNCHANGED <<ListOthers, li, urls, rom_groups, final_roms>>

\* The document is fetched and parsed; .skip(1) drops the first anchor.
ListFetchOk ==
    /\ lpc = "fetch"
    /\ lpc' = "filter"
    /\ li' = 2
    /\ UNCHANGED <<ListOthers, urls, rom_groups, final_roms>>

\* .filter(|link| self.is_valid_file(href)) keeps the anchor; .map() gives its URL.
UrlsKeep ==
    /\ lpc = "filter"
    /\ li <= Len(anchors)
    /\ is_valid_file(anchors[li], options)
    /\ urls' = Append(urls, UrlOfHref(anchors[li]))
    /\ li' = li + 1
    /\ UNCHANGED <<ListOthers, lpc, rom_groups, final_roms>>

\* .filter() drops the anchor.
UrlsDrop ==
    /\ lpc = "filter"
    /\ li <= Len(anchors)
    /\ ~is_valid_file(anchors[li], options)
    /\ li' = li + 1
    /\ UNCHANGED <<ListOthers, lpc, urls, rom_groups, final_roms>>

\* if !self.options.latest_revision { return Ok(urls.into_iter().map(..).collect()) }
ListReturnAll ==
    /\ lpc = "filter"
    /\ li > Len(anchors)
    /\ ~options.latest_revision
    /\ final_roms' = [k \in 1..Len(urls) |-> RomOfUrl(urls[k])]
    /\ lpc' = "done"
    /\ UNCHANGED <<ListOthers, li, urls, rom_groups>>

\* let mut rom_groups = BTreeMap::new(); the grouping loop starts.
GroupStart ==
    /\ lpc = "filter"
    /\ li > Len(anchors)
    /\ options.latest_revision
    /\ rom_groups' = EmptyMap
    /\ li' = 1
    /\ lpc' = "group"
    /\ UNCHANGED <<ListOthers, urls, final_roms>>

\* One iteration of `for url in urls`, lib.rs:128-139.
GroupPush ==
    /\ lpc = "group"
    /\ li <= Len(urls)
    /\ LET rom == RomOfUrl(urls[li])
       IN  rom_groups' = PushToGroup(rom_groups, GroupKey(rom.filename), rom)
    /\ li' = li + 1
    /\ UNCHANGED <<ListOthers, lpc, urls, final_roms>>

\* let mut final_roms = Vec::new(); the selection loop starts.
SelectStart ==
    /\ lpc = "group"
    /\ li > Len(urls)
    /\ final_roms' = <<>>
    /\ li' = 1
    /\ lpc' = "select"
    /\ UNCHANGED <<ListOthers, urls, rom_groups>>

CurrentGroup == rom_groups[SortedKeys(DOMAIN rom_groups)[li]]

\* if roms.len() == 1 { final_roms.push(roms[0].clone()) }
SelectSingle ==
    /\ lpc = "select"
    /\ li <= Cardinality(DOMAIN rom_groups)
    /\ Len(CurrentGroup) = 1
    /\ final_roms' = Append(final_roms, CurrentGroup[1])
    /\ li' = li + 1
    /\ UNCHANGED <<ListOthers, lpc, urls, rom_groups>>

\* else { let latest = roms.iter().max_by_key(..); final_roms.push(rom.clone()) }
SelectLatest ==
    /\ lpc = "select"
    /\ li <= Cardinality(DOMAIN rom_groups)
    /\ Len(CurrentGroup) # 1
    /\ final_roms' = Append(final_roms, MaxByKey(CurrentGroup))
    /\ li' = li + 1
    /\ UNCHANGED <<ListOthers, lpc, urls, rom_groups>>

\* Ok(final_roms)
ListReturn ==
    /\ lpc = "select"
    /\ li > Cardinality(DOMAIN rom_groups)
    /\ lpc' = "done"
    /\ UNCHANGED <<ListOthers, li, urls, rom_groups, final_roms>>

ListNext ==
    \/ ListFetchErr
    \/ ListFetchOk
    \/ UrlsKeep
    \/ UrlsDrop
    \/ ListReturnAll
    \/ GroupStart
    \/ GroupPush
    \/ SelectStart
    \/ SelectSingle
    \/ SelectLatest
    \/ ListReturn

SpecList == ListStart /\ [][ListNext]_vars

(***************************************************************************)
(* C1, C2, C3, C10.  The records handed to the selection are the records   *)
(* of the URLs that passed the filter, in listing order; the canonical     *)
(* title and the revision of a record are those the classifier derives     *)
(* from its filename.                                                      *)
(***************************************************************************)
Cl_Records == [k \in 1..Len(urls) |-> RomOfUrl(urls[k])]

Cl_TitleOf(rom) == get_base_name_and_revision(rom.filename).base_name

\* The revision of a record, None counting as -1.
Cl_RevOf(rom) ==
    LET r == get_base_name_and_revision(rom.filename).revision
    IN  IF r = None THEN -1 ELSE r[1]

Cl_Versioned(rom) == get_base_name_and_revision(rom.filename).revision # None

Cl_Titles == {Cl_TitleOf(Cl_Records[k]) : k \in 1..Len(urls)}

\* The positions, among the records, of the group of title t.
Cl_Group(t) == {k \in 1..Len(urls) : Cl_TitleOf(Cl_Records[k]) = t}

\* The positions, in the output, of the records of title t.
Cl_Outputs(t) == {j \in 1..Len(final_roms) : Cl_TitleOf(final_roms[j]) = t}

\* The positions of the group of t whose revision is the largest of the group.
Cl_MaxOfGroup(t) ==
    {k \in Cl_Group(t) :
        \A m \in Cl_Group(t) : Cl_RevOf(Cl_Records[k]) >= Cl_RevOf(Cl_Records[m])}

Cl_Min(S) == CHOOSE x \in S : \A y \in S : x <= y
Cl_Max(S) == CHOOSE x \in S : \A y \in S : x >= y

Cl_SelectionDone == lpc = "done" /\ options.latest_revision

\* C1: with latest_revision set, once list_roms has returned, the record
\* output for each title is a record of that title's group whose revision,
\* None counting as -1, no record of the group exceeds; it is versioned when
\* any record of the group is; and a group of one outputs its only record.
C1_WinnerHasMaxRevision ==
    Cl_SelectionDone =>
        \A t \in Cl_Titles :
            /\ Cl_Outputs(t) # {}
            /\ \A j \in Cl_Outputs(t) :
                  /\ \E k \in Cl_Group(t) : Cl_Records[k] = final_roms[j]
                  /\ \A k \in Cl_Group(t) :
                        Cl_RevOf(final_roms[j]) >= Cl_RevOf(Cl_Records[k])
                  /\ (\E k \in Cl_Group(t) : Cl_Versioned(Cl_Records[k]))
                        => Cl_Versioned(final_roms[j])
                  /\ Cardinality(Cl_Group(t)) = 1
                        => final_roms[j] = Cl_Records[Cl_Min(Cl_Group(t))]

\* C1 witness: the selection is done on a group that holds an unversioned
\* record followed by a Rev 0 record, and on a group of one.
C1_Witness ==
    /\ Cl_SelectionDone
    /\ \E t \in Cl_Titles :
          /\ Cardinality(Cl_Group(t)) >= 2
          /\ ~Cl_Versioned(Cl_Records[Cl_Max(Cl_Group(t))])
          /\ \E k \in Cl_Group(t) : Cl_RevOf(Cl_Records[k]) = 0
          /\ \A k \in Cl_Group(t) : Cl_RevOf(Cl_Records[k]) <= 0
    /\ \E t \in Cl_Titles : Cardinality(Cl_Group(t)) = 1

\* C2 (as claimed): of several records of a group that share the largest
\* revision, the one output is the first in listing order.
C2_TieKeepsFirst ==
    Cl_SelectionDone =>
        \A t \in Cl_Titles : \A j \in Cl_Outputs(t) :
            final_roms[j] = Cl_Records[Cl_Min(Cl_MaxOfGroup(t))]

\* C2 (amended): of several records of a group that share the largest
\* revision, the one output is the last in listing order.
C2_TieKeepsLast ==
    Cl_SelectionDone =>
        \A t \in Cl_Titles :
            /\ Cl_Outputs(t) # {}
            /\ \A j \in Cl_Outputs(t) :
                  final_roms[j] = Cl_Records[Cl_Max(Cl_MaxOfGroup(t))]

\* C2 witness: the selection is done on a group where two different records
\* share the largest revision.
C2_Witness ==
    /\ Cl_SelectionDone
    /\ \E t \in Cl_Titles :
          /\ Cardinality(Cl_MaxOfGroup(t)) >= 2
          /\ Cl_Records[Cl_Min(Cl_MaxOfGroup(t))] # Cl_Records[Cl_Max(Cl_MaxOfGroup(t))]

\* C3: with latest_revision set, the output holds exactly one record per
\* distinct canonical title of the records handed to the selection.
C3_OneRecordPerTitle ==
    Cl_SelectionDone =>
        /\ Len(final_roms) = Cardinality(Cl_Titles)
        /\ \A t \in Cl_Titles : Cardinality(Cl_Outputs(t)) = 1

\* C3 witness: three records of two titles were selected from.
C3_Witness ==
    /\ Cl_SelectionDone
    /\ Len(urls) = 3
    /\ Cardinality(Cl_Titles) = 2

\* The listing entries as records, whether they passed the filter or not.
Cl_Entries == [k \in 1..(Len(anchors) - 1) |-> RomOfUrl(UrlOfHref(anchors[k + 1]))]

\* isEligible of a record: is_valid_file on its filename.
Cl_Eligible(rom) == is_valid_file(rom.filename, options)

Cl_EligibleOfTitle(t) ==
    {k \in 1..Len(Cl_Entries) :
        Cl_Eligible(Cl_Entries[k]) /\ Cl_TitleOf(Cl_Entries[k]) = t}

\* C10 (as claimed): once list_roms has returned, every record of the output
\* is eligible under the options; and with latest_revision set, the record
\* output for a title has the largest revision among the eligible entries of
\* that title, and every title with an eligible entry is output.
C10_OnlyEligibleRecords ==
    lpc = "done" =>
        /\ \A j \in 1..Len(final_roms) : Cl_Eligible(final_roms[j])
        /\ options.latest_revision =>
              /\ \A k \in 1..Len(Cl_Entries) :
                    Cl_Eligible(Cl_Entries[k]) =>
                        \E j \in 1..Len(final_roms) :
                            Cl_TitleOf(final_roms[j]) = Cl_TitleOf(Cl_Entries[k])
              /\ \A j \in 1..Len(final_roms) :
                    \A k \in Cl_EligibleOfTitle(Cl_TitleOf(final_roms[j])) :
                        Cl_RevOf(final_roms[j]) >= Cl_RevOf(Cl_Entries[k])

\* C10 restricted to the listings without directory entries (no href ends
\* with '/'): there the claim holds.
C10_FilesOnly ==
    (\A k \in 2..Len(anchors) : anchors[k][Len(anchors[k])] # "/")
    => C10_OnlyEligibleRecords

(***************************************************************************)
(* main and download_rom, examples/rom_dl.rs:31-120.  Every `?` is a step  *)
(* that may fail; the outcome of each request, write and child process is  *)
(* chosen by the environment.                                              *)
(***************************************************************************)
DlNames ==
    { <<"G", ".", "z", "i", "p">>, <<"H", ".", "b">> }

\* Path::extension: the text after the last '.' of the file name, if any.
ExtensionOf(fname) ==
    IF \E i \in 2..Len(fname) : fname[i] = "."
    THEN LET d == CHOOSE i \in 2..Len(fname) :
                     fname[i] = "." /\ \A m \in (i + 1)..Len(fname) : fname[m] # "."
         IN  SubSeq(fname, d + 1, Len(fname))
    ELSE <<>>

\* dest.extension().unwrap_or_default() == "zip"
IsZip(fname) == ExtensionOf(fname) = <<"z", "i", "p">>

\* A variant of the loop body that propagates the error: download_rom(..).await?
OnDownloadErrAbort == "exit_err"

\* if let Err(e) = download_rom(..).await { eprintln!(..) }: the loop goes on.
OnDownloadErr == "loop"

DlStart ==
    /\ ScanIdle /\ OptionsIdle /\ ValidIdle /\ SplitIdle /\ ListIdle
    /\ winners = <<>>
    /\ dpc = "list_dirs"
    /\ di = 0
    /\ attempted = <<>>
    /\ reported = <<>>

DlOthers == <<scanVars, options, validVars, splitVars, listVars>>

\* lister.list_directories(Some("No-Intro")).await? returns Ok.
MainListDirsOk ==
    /\ dpc = "list_dirs"
    /\ dpc' = "list_roms"
    /\ UNCHANGED <<DlOthers, winners, di, attempted, reported>>

\* lister.list_directories(..).await? returns Err: main returns it.
MainListDirsErr ==
    /\ dpc = "list_dirs"
    /\ dpc' = "exit_err"
    /\ UNCHANGED <<DlOthers, winners, di, attempted, reported>>

\* lister.list_roms(SNES, "No-Intro").await? returns Ok(winners).
MainListRomsOk ==
    /\ dpc = "list_roms"
    /\ winners' \in SeqsUpTo(DlNames, MaxWinners)
    /\ di' = 1
    /\ dpc' = "loop"
    /\ UNCHANGED <<DlOthers, attempted, reported>>

\* lister.list_roms(..).await? returns Err: main returns it.
MainListRomsErr ==
    /\ dpc = "list_roms"
    /\ dpc' = "exit_err"
    /\ UNCHANGED <<DlOthers, winners, di, attempted, reported>>

\* The for loop takes the next rom and calls download_rom.
LoopCall ==
    /\ dpc = "loop"
    /\ di <= Len(winners)
    /\ attempted' = Append(attempted, di)
    /\ dpc' = "download_file"
    /\ UNCHANGED <<DlOthers, winners, di, reported>>

\* The for loop is over: Ok(()).
LoopEnd ==
    /\ dpc = "loop"
    /\ di > Len(winners)
    /\ dpc' = "exit_ok"
    /\ UNCHANGED <<DlOthers, winners, di, attempted, reported>>

\* download_rom returns Err at a `?`: main prints "Failed to download".
DlFailAt(stage) ==
    /\ dpc = stage
    /\ reported' = Append(reported, <<di, "failed">>)
    /\ di' = IF OnDownloadErr = "loop" THEN di + 1 ELSE di
    /\ dpc' = OnDownloadErr
    /\ UNCHANGED <<DlOthers, winners, attempted>>

\* download_rom returns Ok(()) having printed `note` (or nothing).
DlReturnOkAt(stage, note) ==
    /\ dpc = stage
    /\ reported' = IF note = "" THEN reported ELSE Append(reported, <<di, note>>)
    /\ di' = di + 1
    /\ dpc' = "loop"
    /\ UNCHANGED <<DlOthers, winners, attempted>>

\* download_file(..).await? fails (send, text, bytes or write).
DownloadFileErr == DlFailAt("download_file")

\* download_file returns Ok(None): "Skipping ... received text response".
DownloadText == DlReturnOkAt("download_file", "skipped")

\* download_file returns Ok(Some(dest)) and dest is not a zip.
DownloadSavedOther ==
    /\ dpc = "download_file"
    /\ ~IsZip(winners[di])
    /\ DlReturnOkAt("download_file", "")

\* download_file returns Ok(Some(dest)) and dest is a zip: unzip is run.
DownloadSavedZip ==
    /\ dpc = "download_file"
    /\ IsZip(winners[di])
    /\ dpc' = "unzip"
    /\ UNCHANGED <<DlOthers, winners, di, attempted, reported>>

\* Command::new("unzip")...status()? fails to run.
UnzipSpawnErr == DlFailAt("unzip")

\* !status.success(): "Failed to unzip", return Ok(()).
UnzipFailed == DlReturnOkAt("unzip", "unzip failed")

\* unzip succeeded.
UnzipOk ==
    /\ dpc = "unzip"
    /\ dpc' = "remove_zip"
    /\ UNCHANGED <<DlOthers, winners, di, attempted, reported>>

\* tokio::fs::remove_file(&dest).await? fails.
RemoveZipErr == DlFailAt("remove_zip")

\* The zip is removed and resulting_folder does not exist.
RemoveZipDone == DlReturnOkAt("remove_zip", "")

\* The zip is removed and resulting_folder exists: its files are moved.
RemoveZipThenMove ==
    /\ dpc = "remove_zip"
    /\ dpc' = "move"
    /\ UNCHANGED <<DlOthers, winners, di, attempted, reported>>

\* read_dir, next_entry, copy or remove_dir_all fails.
MoveErr == DlFailAt("move")

\* The files are moved and the folder removed.
MoveDone == DlReturnOkAt("move", "")

DlNext ==
    \/ MainListDirsOk
    \/ MainListDirsErr
    \/ MainListRomsOk
    \/ MainListRomsErr
    \/ LoopCall
    \/ LoopEnd
    \/ DownloadFileErr
    \/ DownloadText
    \/ DownloadSavedOther
    \/ DownloadSavedZip
    \/ UnzipSpawnErr
    \/ UnzipFailed
    \/ UnzipOk
    \/ RemoveZipErr
    \/ RemoveZipDone
    \/ RemoveZipThenMove
    \/ MoveErr
    \/ MoveDone

SpecDl == DlStart /\ [][DlNext]_vars

\* main is one sequential task: a step that can be taken is eventually taken.
FairSpecDl == DlStart /\ [][DlNext]_vars /\ WF_vars(DlNext)

(***************************************************************************)
(* C9.                                                                     *)
(***************************************************************************)
\* The sequence 1, 2, ..., n.
RECURSIVE C9_Iota(_)
C9_Iota(n) == IF n = 0 THEN <<>> ELSE Append(C9_Iota(n - 1), n)

C9_InLoop == dpc \notin {"list_dirs", "list_roms", "exit_err", "exit_ok"}

C9_AllAttemptedOnce ==
    /\ dpc = "exit_ok"
    /\ attempted = C9_Iota(Len(winners))

====
